---- MODULE Spec2Model ----
(***************************************************************************)
(* Model of the operator-overloading expression evaluator (makeOp / op):   *)
(* operator table construction, lexer, precedence parser and evaluator.    *)
(* Text is a sequence of one-character strings; cursor indices are 0-based *)
(* as in the source.                                                       *)
(***************************************************************************)
EXTENDS Integers, Sequences, FiniteSets, TLC

VARIABLES
    pc,        \* position of the invocation: "idle", "parse", "eval", "done"
    ops,       \* the processed operator table of makeOp
    strs,      \* the text fragments of the template literal
    vals,      \* the hole values
    strIdx,    \* cursor: fragment index
    charIdx,   \* cursor: character index
    tree,      \* the AST the parser returned
    result,    \* what the invocation returned or threw
    calls,     \* the host operator functions the evaluator invoked, in order
    token,     \* the token the last lex() returned when the lexer is driven alone
    stack      \* the suspended invocations whose operator method called op again

vars == <<pc, ops, strs, vals, strIdx, charIdx, tree, result, calls, token, stack>>

(* ------------------------------ bounds --------------------------------- *)
\* longest generated character/hole sequence
MaxItems == 3
\* longest generated same-table operator chain (number of operators)
MaxChain == 2

(* ------------------------------ values --------------------------------- *)
\* JS undefined
Undef == <<"undef">>

\* a primitive of the given typeof ("number" | "string") and payload
Prim(ty, payload) == <<"prim", ty, payload>>

\* a composite (typeof 'object') value: its class and its identity
Obj(cls, id) == <<"obj", cls, id>>

TypeOf(v) == IF v[1] = "obj" THEN "object" ELSE IF v[1] = "prim" THEN v[2] ELSE "undefined"

\* A host class is the pair <<instance mode, static mode>> of its operator
\* methods: "absent" (no such member), "ok" (returns), "throws".
Modes == {"absent", "ok", "throws"}
Classes == Modes \X Modes

\* `op in left`
HasInst(v) == TypeOf(v) = "object" /\ v[2][1] # "absent"
\* `op in left.constructor`
HasStatic(v) == TypeOf(v) = "object" /\ v[2][2] # "absent"

\* what a host method call produces: a fresh composite of the owner's class
\* whose identity records the call, or the method's own exception
HostCall(kind, owner, sym, args) ==
    LET mode == IF TypeOf(owner) # "object" THEN "absent"
                ELSE IF kind = "inst" THEN owner[2][1] ELSE owner[2][2]
        call == <<kind, owner, sym, args>>
    IN  IF mode = "ok"
        THEN [ok |-> TRUE, val |-> Obj(owner[2], call), call |-> call]
        ELSE [ok |-> FALSE, val |-> <<"HostError", call>>, call |-> call]

(* --------------------------- operator table ---------------------------- *)
Bin(s) == <<"bin", s>>
Un(s) == <<"un", s>>
Fn(o, c) == <<"fn", o, c>>
\* string shorthand of a user-supplied table
Str(s) == <<"string", s>>

RECURSIVE Flat(_)
Flat(tiers) == IF tiers = <<>> THEN <<>> ELSE Head(tiers) \o Flat(Tail(tiers))

\* `op.type === 'fn' ? op.parts.includes(c) : op.op === c`
Declares(spec, c) == IF spec[1] = "fn" THEN spec[2] = c \/ spec[3] = c ELSE spec[2] = c

SomeDeclares(all, c) == \E k \in 1..Len(all) : Declares(all[k], c)

PushLast(out, spec) == [out EXCEPT ![Len(out)] = Append(@, spec)]

processOps(raw) ==
    LET out == [t \in 1..Len(raw) |->
                  [k \in 1..Len(raw[t]) |->
                     IF raw[t][k][1] = "string" THEN Bin(raw[t][k][2]) ELSE raw[t][k]]]
        all == Flat(out)
        o1 == IF ~SomeDeclares(all, <<"(">>) THEN PushLast(out, Un(<<"(">>)) ELSE out
        o2 == IF ~SomeDeclares(all, <<")">>) THEN PushLast(o1, Un(<<")">>)) ELSE o1
        o3 == IF ~SomeDeclares(all, <<",">>) THEN PushLast(o2, Un(<<",">>)) ELSE o2
    IN  o3

\* `ops.length === 0 || !ops.some(tier => tier.length !== 0)`
NoOperators(raw) == Len(raw) = 0 \/ ~\E t \in 1..Len(raw) : Len(raw[t]) # 0

opName(spec) == IF spec[1] = "fn" THEN spec[2] \o spec[3] ELSE spec[2]

(* -------------------------------- lexer -------------------------------- *)
\* the `undefined` that indexing past the end of a fragment yields
NoChar == ""

\* strs[si][ci]
CharAt(si, ci) == IF ci < Len(strs[si + 1]) THEN strs[si + 1][ci + 1] ELSE NoChar

\* `c.trim() === ''`
IsSpace(c) == c = " "

\* a digit or a decimal point
isNumber(c) == c \in {"0", "1", "2", "3", "4", "5", "6", "7", "8", "9", "."}

\* `strs[strIdx].startsWith(sym, charIdx)`
StartsWith(si, ci, sym) ==
    /\ ci + Len(sym) <= Len(strs[si + 1])
    /\ \A k \in 1..Len(sym) : strs[si + 1][ci + k] = sym[k]

RECURSIVE SkipSpace(_, _)
SkipSpace(si, ci) ==
    IF CharAt(si, ci) # NoChar /\ IsSpace(CharAt(si, ci)) THEN SkipSpace(si, ci + 1) ELSE ci

\* the symbol with which a spec matches at the cursor, <<>> if it does not
MatchRaw(o, si, ci) ==
    IF o[1] = "fn"
    THEN IF StartsWith(si, ci, o[2]) THEN o[2]
         ELSE IF StartsWith(si, ci, o[3]) THEN o[3] ELSE <<>>
    ELSE IF StartsWith(si, ci, o[2]) THEN o[2] ELSE <<>>

\* the spec with the longest symbol matching at the cursor
FirstMatch_Longest(si, ci) ==
    LET all == Flat(ops)
        hits == {k \in 1..Len(all) : MatchRaw(all[k], si, ci) # <<>>}
    IN  IF hits = {} THEN 0
        ELSE CHOOSE k \in hits :
                 \A j \in hits : Len(MatchRaw(all[j], si, ci)) <= Len(MatchRaw(all[k], si, ci))

\* index in ops.flat() of the first spec matching at the cursor, 0 if none
FirstMatch(si, ci) ==
    LET all == Flat(ops)
        hits == {k \in 1..Len(all) : MatchRaw(all[k], si, ci) # <<>>}
    IN  IF hits = {} THEN 0 ELSE CHOOSE k \in hits : \A j \in hits : k <= j

\* first index >= c holding the quote, or the fragment length if there is none
RECURSIVE ScanQuote(_, _, _)
ScanQuote(si, c, quote) ==
    IF CharAt(si, c) = NoChar \/ CharAt(si, c) = quote THEN c ELSE ScanQuote(si, c + 1, quote)

\* first index >= c that does not continue the numeric run
RECURSIVE ScanNumber(_, _)
ScanNumber(si, c) ==
    IF CharAt(si, c) # NoChar /\ ~IsSpace(CharAt(si, c)) /\ isNumber(CharAt(si, c))
    THEN ScanNumber(si, c + 1) ELSE c

Slice(si, from, to) == [k \in 1..(to - from) |-> strs[si + 1][from + k]]

RECURSIVE StripLeadingZeros(_)
StripLeadingZeros(s) ==
    IF Len(s) > 1 /\ s[1] = "0" THEN StripLeadingZeros(Tail(s)) ELSE s

RECURSIVE StripTrailingZeros(_)
StripTrailingZeros(s) ==
    IF Len(s) > 0 /\ s[Len(s)] = "0" THEN StripTrailingZeros(SubSeq(s, 1, Len(s) - 1)) ELSE s

\* `Number(str).toString()` for a run of digits and decimal points
NumberToString(run) ==
    LET dots == {k \in 1..Len(run) : run[k] = "."}
    IN  IF Cardinality(dots) > 1 \/ run = <<".">> THEN <<"N", "a", "N">>
        ELSE LET d == IF dots = {} THEN Len(run) + 1 ELSE CHOOSE k \in dots : TRUE
                 int == StripLeadingZeros(IF d = 1 THEN <<"0">> ELSE SubSeq(run, 1, d - 1))
                 frac == StripTrailingZeros(SubSeq(run, d + 1, Len(run)))
             IN  IF frac = <<>> THEN int ELSE int \o <<".">> \o frac

LitTok(v, ci) == [type |-> "lit", val |-> v, spec |-> <<>>, raw |-> <<>>, ci |-> ci]
OpTok(spec, raw, ci) == [type |-> "op", val |-> Undef, spec |-> spec, raw |-> raw, ci |-> ci]
Throw(msg, ci) == [type |-> "throw", val |-> <<"SyntaxError", msg>>, spec |-> <<>>, raw |-> <<>>, ci |-> ci]

\* the string literal whose opening quote is at c0 and whose scan stopped at e
LexString(si, c0, e) ==
    IF CharAt(si, c0 + 1) = NoChar THEN Throw("string literal expected", c0 + 1)
    ELSE IF CharAt(si, e) = NoChar THEN Throw("unterminated string literal", e)
    ELSE LitTok(Prim("string", Slice(si, c0 + 1, e)), c0)

\* the token at c0, the cursor after the whitespace: ch is the character there
\* and m the index of the first matching spec
LexAt(si, c0, ch, m) ==
    IF ch = NoChar THEN LitTok(IF si < Len(vals) THEN vals[si + 1] ELSE Undef, c0)
    ELSE IF m # 0 THEN OpTok(Flat(ops)[m], MatchRaw(Flat(ops)[m], si, c0), c0)
    ELSE IF ch = "'" \/ ch = "\"" THEN LexString(si, c0, ScanQuote(si, c0 + 1, ch))
    ELSE IF isNumber(ch)
    THEN LitTok(Prim("number", NumberToString(Slice(si, c0, ScanNumber(si, c0)))), c0)
    ELSE Throw("invalid token", c0)

LexFrom(si, c0) == LexAt(si, c0, CharAt(si, c0), FirstMatch(si, c0))

\* lex() at cursor (si, ci): the token and the value of charIdx it leaves
lex(si, ci) ==
    IF si >= Len(strs) THEN LitTok(Undef, ci) ELSE LexFrom(si, SkipSpace(si, ci))

\* the length of the text of a literal value: `val.length + 2` or `val.toString().length`
\* (a composite without its own toString prints as "[object Object]")
ConsumedLength(v) ==
    IF TypeOf(v) = "string" THEN Len(v[3]) + 2
    ELSE IF TypeOf(v) = "number" THEN Len(v[3]) ELSE 15

Cursor(si, ci) == [ok |-> TRUE, si |-> si, ci |-> ci, err |-> <<>>]
NoCursor(err, si, ci) == [ok |-> FALSE, si |-> si, ci |-> ci, err |-> err]

\* charIdx moved past the token t that next() consumed
NextPast(si, t) ==
    IF t.type = "throw" THEN NoCursor(t.val, si, t.ci)
    ELSE IF t.type = "lit" /\ t.val = Undef
    THEN NoCursor(<<"TypeError", "toString of undefined">>, si, t.ci)
    ELSE IF t.type = "op" THEN Cursor(si, t.ci + Len(t.raw))
    ELSE Cursor(si, t.ci + ConsumedLength(t.val))

\* next() at cursor (si, ci): the cursor after it, or the error lex() threw
next(si, ci) ==
    IF si >= Len(strs) THEN Cursor(si, ci)
    ELSE IF CharAt(si, ci) = NoChar THEN Cursor(si + 1, 0)
    ELSE NextPast(si, lex(si, ci))

NoTok == [type |-> "none", val |-> Undef, spec |-> <<>>, raw |-> <<>>, ci |-> 0]

(* -------------------------------- parser ------------------------------- *)
Null == <<"null">>

\* { [OP]: spec, left, right }
Node(spec, left, right) == <<"node", spec, left, right>>

IsNode(n) == n[1] = "node"

Ret(node, si, ci) == [ok |-> TRUE, node |-> node, si |-> si, ci |-> ci, err |-> <<>>]
Raise(err, si, ci) == [ok |-> FALSE, node |-> Null, si |-> si, ci |-> ci, err |-> err]
SyntaxError(msg) == <<"SyntaxError", msg>>

\* `ops.flat().some((op) => op.type === 'un' && op.op === tok.raw)`
SomeUnary(raw) == \E k \in 1..Len(Flat(ops)) : Flat(ops)[k] = Un(raw)

\* `tok[OP].type === 'un' ? tok[OP] : ops.flat().find(...)`
UnarySpecOf(tok) == IF tok.spec[1] = "un" THEN tok.spec ELSE Un(tok.raw)

\* a tier check that accepts a Binary symbol of any tier
TierHasBinary_AnyTier(i, raw) == \E t \in 1..Len(ops) : \E k \in 1..Len(ops[t]) : ops[t][k] = Bin(raw)

\* `tier.some((op) => op.type === 'bin' && op.op === tok.raw)`
TierHasBinary(i, raw) == \E k \in 1..Len(ops[i]) : ops[i][k] = Bin(raw)

\* the folding loop over clauses = [left, op1, r1, op2, r2, ...]
RECURSIVE FoldClauses(_)
FoldClauses(clauses) ==
    IF Len(clauses) > 1
    THEN FoldClauses(<<Node(clauses[2], clauses[1], clauses[3])>> \o SubSeq(clauses, 4, Len(clauses)))
    ELSE clauses[1]

RECURSIVE parsers(_, _, _)
RECURSIVE ArgLoop(_, _, _, _)
RECURSIVE TierLoop(_, _, _, _)

ArgsDone(args, tok, si) == [ok |-> TRUE, args |-> args, tok |-> tok, si |-> si, err |-> <<>>]
ArgsFail(err, tok, si) == [ok |-> FALSE, args |-> <<>>, tok |-> tok, si |-> si, err |-> err]

(* grouping: `(` expr `)` *)
\* n2 is the cursor after the `)`
GroupClosed(expr, n2) ==
    IF n2.ok THEN Ret(expr.node, n2.si, n2.ci) ELSE Raise(n2.err, n2.si, n2.ci)

\* a group that the end of the input closes
GroupClose_AtEnd(expr, cp) ==
    IF cp.type = "throw" THEN Raise(cp.val, expr.si, cp.ci)
    ELSE IF cp.type = "lit" /\ cp.val = Undef THEN Ret(expr.node, expr.si, cp.ci)
    ELSE IF cp.type = "op" /\ cp.raw = <<")">> THEN GroupClosed(expr, next(expr.si, cp.ci))
    ELSE Raise(SyntaxError("unterminated '('"), expr.si, cp.ci)

\* cp is the token after the enclosed expression
GroupClose(expr, cp) ==
    IF cp.type = "throw" THEN Raise(cp.val, expr.si, cp.ci)
    ELSE IF cp.type = "op" /\ cp.raw = <<")">> THEN GroupClosed(expr, next(expr.si, cp.ci))
    ELSE Raise(SyntaxError("unterminated '('"), expr.si, cp.ci)

GroupExpr(expr) == IF ~expr.ok THEN expr ELSE GroupClose(expr, lex(expr.si, expr.ci))

Group_Primary(n) ==
    IF ~n.ok THEN Raise(n.err, n.si, n.ci) ELSE GroupExpr(parsers(0, n.si, n.ci))

\* n is the cursor after the `(`
Group(n) ==
    IF ~n.ok THEN Raise(n.err, n.si, n.ci) ELSE GroupExpr(parsers(Len(ops), n.si, n.ci))

(* unary operator *)
UnaryExpr(tok, expr) ==
    IF ~expr.ok THEN expr ELSE Ret(Node(UnarySpecOf(tok), Null, expr.node), expr.si, expr.ci)

\* n is the cursor after the operator token
Unary(tok, n) ==
    IF ~n.ok THEN Raise(n.err, n.si, n.ci) ELSE UnaryExpr(tok, parsers(Len(ops), n.si, n.ci))

(* argument list of a call *)
\* t2 is the token after a `,`
ArgAfterComma(closing, args, e, n, t2) ==
    IF t2.type = "throw" THEN ArgsFail(t2.val, t2, n.si)
    ELSE ArgLoop(closing, Append(args, e.node), t2, n.si)

\* n is the cursor after a `,`
ArgComma(closing, args, e, t, n) ==
    IF ~n.ok THEN ArgsFail(n.err, t, e.si)
    ELSE ArgAfterComma(closing, args, e, n, lex(n.si, n.ci))

\* t is the token after the argument e
ArgNext(closing, args, e, t) ==
    IF t.type = "throw" THEN ArgsFail(t.val, t, e.si)
    ELSE IF t.type = "op"
    THEN IF t.raw = <<",">> THEN ArgComma(closing, args, e, t, next(e.si, t.ci))
         ELSE IF t.raw # closing /\ t.spec[1] # "un" /\ t.raw # <<"(">>
         THEN ArgsFail(<<"SyntaxError", "expected either ',' or closing", closing, t.raw>>, t, e.si)
         ELSE IF t.raw = closing THEN ArgsDone(Append(args, e.node), t, e.si)
         ELSE ArgLoop(closing, Append(args, e.node), t, e.si)
    ELSE ArgsFail(<<"SyntaxError", "expected closing", closing>>, t, e.si)

Arg(closing, args, nextTok, e) ==
    IF ~e.ok THEN ArgsFail(e.err, nextTok, e.si) ELSE ArgNext(closing, args, e, lex(e.si, e.ci))

\* the argument loop of a call: nextTok is the token at the cursor (si, nextTok.ci)
ArgLoop(closing, args, nextTok, si) ==
    IF nextTok.type = "op" /\ nextTok.raw = closing THEN ArgsDone(args, nextTok, si)
    ELSE Arg(closing, args, nextTok, parsers(Len(ops), si, nextTok.ci))

(* literal, possibly the callee of a call *)
CallArgs(tok, a) ==
    IF ~a.ok THEN Raise(a.err, a.si, a.tok.ci)
    ELSE Ret(Node(a.tok.spec, tok.val, a.args), a.si, a.tok.ci)

\* first is the token after the opening symbol
CallFirst(tok, open, n2, first) ==
    IF first.type = "throw" THEN Raise(first.val, n2.si, first.ci)
    ELSE CallArgs(tok, ArgLoop(open.spec[3], <<>>, first, n2.si))

\* n2 is the cursor after the opening symbol
Call(tok, open, n2) ==
    IF ~n2.ok THEN Raise(n2.err, n2.si, n2.ci) ELSE CallFirst(tok, open, n2, lex(n2.si, n2.ci))

\* nextTok is the token after the literal
LiteralNext(tok, n, nextTok) ==
    IF nextTok.type = "throw" THEN Raise(nextTok.val, n.si, nextTok.ci)
    ELSE IF nextTok.type = "op" /\ nextTok.spec[1] = "fn" /\ nextTok.raw = nextTok.spec[2]
    THEN Call(tok, nextTok, next(n.si, nextTok.ci))
    ELSE Ret(tok.val, n.si, nextTok.ci)

\* n is the cursor after the literal token
Literal(tok, n) ==
    IF ~n.ok THEN Raise(n.err, n.si, n.ci)
    ELSE IF tok.val = Undef THEN Raise(SyntaxError("expected value"), n.si, n.ci)
    ELSE LiteralNext(tok, n, lex(n.si, n.ci))

\* parsers[0] once its first token is read
Primary(si, tok) ==
    IF tok.type = "throw" THEN Raise(tok.val, si, tok.ci)
    ELSE IF tok.type = "op"
    THEN IF tok.raw = <<"(">> THEN Group(next(si, tok.ci))
         ELSE IF tok.spec[1] = "un" \/ SomeUnary(tok.raw) THEN Unary(tok, next(si, tok.ci))
         ELSE Raise(SyntaxError("expected value"), si, tok.ci)
    ELSE Literal(tok, next(si, tok.ci))

(* tier parser *)
\* t is the token after the right operand r
ClauseNext(i, clauses, tok, r, t) ==
    IF t.type = "throw" THEN Raise(t.val, r.si, t.ci)
    ELSE TierLoop(i, clauses \o <<tok.spec, r.node>>, t, r.si)

ClauseRight(i, clauses, tok, r) ==
    IF ~r.ok THEN r ELSE ClauseNext(i, clauses, tok, r, lex(r.si, r.ci))

\* n is the cursor after the operator token
Clause(i, clauses, tok, n) ==
    IF ~n.ok THEN Raise(n.err, n.si, n.ci)
    ELSE ClauseRight(i, clauses, tok, parsers(i - 1, n.si, n.ci))

\* the clause loop of tier i: tok is the token at the cursor (si, tok.ci)
TierLoop(i, clauses, tok, si) ==
    IF tok.type = "op" /\ TierHasBinary(i, tok.raw)
    THEN Clause(i, clauses, tok, next(si, tok.ci))
    ELSE Ret(FoldClauses(clauses), si, tok.ci)

\* end of input after the left operand: n is the cursor after next()
TierEnd(left, n) == Ret(left.node, n.si, n.ci)

\* tok is the token after the left operand
TierNext(i, left, tok) ==
    IF tok.type = "throw" THEN Raise(tok.val, left.si, tok.ci)
    ELSE IF tok.type = "lit" /\ tok.val = Undef THEN TierEnd(left, next(left.si, tok.ci))
    ELSE IF tok.type = "lit" THEN Raise(SyntaxError("expected operator"), left.si, tok.ci)
    ELSE TierLoop(i, <<left.node>>, tok, left.si)

Tier(i, left) == IF ~left.ok THEN left ELSE TierNext(i, left, lex(left.si, left.ci))

\* parsers[i]() started at cursor (si, ci): level 0 is the primary parser,
\* level i >= 1 the parser of tier ops[i]
parsers(i, si, ci) ==
    IF i = 0 THEN Primary(si, lex(si, ci)) ELSE Tier(i, parsers(i - 1, si, ci))

(* ------------------------------ evaluator ------------------------------ *)
\* the outcome of an evaluation: a value or a thrown error, and the host
\* operator functions invoked on the way, in order
Value(v, log) == [ok |-> TRUE, val |-> v, calls |-> log]
Thrown(e, log) == [ok |-> FALSE, val |-> e, calls |-> log]
OperatorError(msg, sym, left, right) == <<"OperatorError", msg, sym, left, right>>

IsStrOrNum(v) == TypeOf(v) \in {"string", "number"}

\* the candidates of a chain of `if (present) try { return f(...) } catch (e) {}`
\* are tried in order; cands is a sequence of <<present, call outcome>>
RECURSIVE TryInOrder(_, _, _)
TryInOrder(cands, log, error) ==
    IF cands = <<>> THEN Thrown(error, log)
    ELSE IF ~Head(cands)[1] THEN TryInOrder(Tail(cands), log, error)
    ELSE IF Head(cands)[2].ok THEN Value(Head(cands)[2].val, Append(log, Head(cands)[2].call))
    ELSE TryInOrder(Tail(cands), Append(log, Head(cands)[2].call), error)

\* the static fallbacks of a composite left operand without an instance method
StaticFallbacks(sym, left, right, log) ==
    TryInOrder(<< <<HasStatic(left), HostCall("static", left, sym, <<left, right>>)>>,
                  <<TypeOf(right) = "object" /\ HasStatic(right),
                    HostCall("static", right, sym, <<left, right>>)>> >>,
               log,
               OperatorError("not a callable on left operand or a static function on either operand's types",
                             sym, left, Null))

\* the fallbacks of a builtin symbol whose operands are not both primitives
RightFallbacks(sym, left, right, log) ==
    TryInOrder(<< <<TypeOf(right) = "object" /\ HasInst(right),
                    HostCall("inst", right, sym, <<left>>)>>,
                  <<TypeOf(right) = "object" /\ HasStatic(right),
                    HostCall("static", right, sym, <<left, right>>)>> >>,
               log,
               OperatorError("cannot evaluate", sym, left, right))

\* a dispatch that tries the right operand for every symbol
EvalBinary_AnySymbol(spec, left, right, log) ==
    LET sym == opName(spec)
    IN  IF TypeOf(left) = "object"
        THEN IF HasInst(left)
             THEN LET c == HostCall("inst", left, sym, <<right>>)
                  IN  IF c.ok THEN Value(c.val, Append(log, c.call))
                      ELSE Thrown(c.val, Append(log, c.call))
             ELSE StaticFallbacks(sym, left, right, log)
        ELSE IF spec[2] = <<"+">> /\ IsStrOrNum(left) /\ IsStrOrNum(right)
        THEN Value(Prim(IF TypeOf(left) = "number" /\ TypeOf(right) = "number"
                        THEN "number" ELSE "string", <<"builtin", spec[2], left, right>>), log)
        ELSE IF spec[2] \in {<<"-">>, <<"*">>, <<"/">>}
                /\ TypeOf(left) = "number" /\ TypeOf(right) = "number"
        THEN Value(Prim("number", <<"builtin", spec[2], left, right>>), log)
        ELSE RightFallbacks(sym, left, right, log)

\* the `bin` branch once both operands are evaluated
EvalBinary(spec, left, right, log) ==
    LET sym == opName(spec)
    IN  IF TypeOf(left) = "object"
        THEN IF HasInst(left)
             THEN LET c == HostCall("inst", left, sym, <<right>>)
                  IN  IF c.ok THEN Value(c.val, Append(log, c.call))
                      ELSE Thrown(c.val, Append(log, c.call))
             ELSE StaticFallbacks(sym, left, right, log)
        ELSE IF spec[2] = <<"+">>
        THEN IF IsStrOrNum(left) /\ IsStrOrNum(right)
             THEN Value(Prim(IF TypeOf(left) = "number" /\ TypeOf(right) = "number"
                             THEN "number" ELSE "string", <<"builtin", spec[2], left, right>>), log)
             ELSE RightFallbacks(sym, left, right, log)
        ELSE IF spec[2] \in {<<"-">>, <<"*">>, <<"/">>}
        THEN IF TypeOf(left) = "number" /\ TypeOf(right) = "number"
             THEN Value(Prim("number", <<"builtin", spec[2], left, right>>), log)
             ELSE RightFallbacks(sym, left, right, log)
        ELSE Thrown(OperatorError("not a builtin or a callable on left operand", sym, left, Null), log)

RECURSIVE evalOps(_)
RECURSIVE EvalArgs(_, _, _)

\* `args.map((val) => evalOps(val))`, stopping at the first throw
EvalArgs(nodes, done, log) ==
    IF nodes = <<>> THEN Value(done, log)
    ELSE LET a == evalOps(Head(nodes))
         IN  IF ~a.ok THEN Thrown(a.val, log \o a.calls)
             ELSE EvalArgs(Tail(nodes), Append(done, a.val), log \o a.calls)

evalOps(node) ==
    IF ~IsNode(node) THEN Value(node, <<>>)
    ELSE LET spec == node[2]
         IN  IF spec[1] = "bin"
             THEN LET left == evalOps(node[3])
                      right == evalOps(node[4])
                  IN  IF ~left.ok THEN left
                      ELSE IF ~right.ok THEN Thrown(right.val, left.calls \o right.calls)
                      ELSE EvalBinary(spec, left.val, right.val, left.calls \o right.calls)
             ELSE IF spec[1] = "un"
             THEN LET right == evalOps(node[4])
                  IN  IF ~right.ok THEN right
                      ELSE IF TypeOf(right.val) = "object" /\ HasInst(right.val)
                      THEN LET c == HostCall("inst", right.val, opName(spec), <<>>)
                           IN  IF c.ok THEN Value(c.val, Append(right.calls, c.call))
                               ELSE Thrown(c.val, Append(right.calls, c.call))
                      ELSE Thrown(OperatorError("not a callable on", opName(spec), right.val, Null), right.calls)
             ELSE LET left == evalOps(node[3])
                      args == EvalArgs(node[4], <<>>, left.calls)
                  IN  IF ~left.ok THEN left
                      ELSE IF ~args.ok THEN args
                      ELSE IF TypeOf(left.val) = "object" /\ HasInst(left.val)
                      THEN LET c == HostCall("inst", left.val, opName(spec), args.val)
                           IN  IF c.ok THEN Value(c.val, Append(args.calls, c.call))
                               ELSE Thrown(c.val, Append(args.calls, c.call))
                      ELSE TryInOrder(<< <<HasStatic(left.val),
                                             HostCall("static", left.val, opName(spec), <<left.val, args.val>>)>> >>,
                                      args.calls,
                                      OperatorError("not a callable on left operand or a static function on its type",
                                                    opName(spec), left.val, Null))

(* --------------------------- tables and inputs ------------------------- *)
\* the default table of `op` and the tables of the test suite, as supplied
DefaultTable ==
    << <<Str(<<"*">>), Str(<<"/">>)>>,
       <<Str(<<"+">>), Str(<<"-">>)>>,
       <<Str(<<"=", "=">>), Str(<<"!", "=">>)>>,
       <<Fn(<<"[">>, <<"]">>), Fn(<<"(">>, <<")">>), Un(<<"-">>)>> >>

CustomTable == << <<Str(<<"@">>), Str(<<"#">>)>>, <<Str(<<"!">>)>>, <<Str(<<"=">>)>> >>

\* a shorter symbol declared before a longer one that it prefixes
PrefixTable == << <<Str(<<"=">>)>>, <<Str(<<"=", "=">>)>> >>

\* unary minus declared in a tier above the binary operators
UnaryFirstTable ==
    << <<Un(<<"-">>)>>,
       <<Str(<<"*">>)>>,
       <<Str(<<"+">>), Str(<<"-">>)>>,
       <<Fn(<<"[">>, <<"]">>), Fn(<<"(">>, <<")">>)>> >>

\* a subscript operator and a prefix operator, no call parentheses
SubscriptTable == << <<Str(<<"+">>)>>, <<Fn(<<"[">>, <<"]">>), Un(<<"!">>)>> >>

RawTables == {DefaultTable, CustomTable, PrefixTable, UnaryFirstTable, SubscriptTable}

\* the hole marker of an item sequence (`${...}` of a template literal)
Hole == "$"

\* strs of the template literal written as an item sequence
RECURSIVE Split(_, _, _)
Split(items, cur, acc) ==
    IF items = <<>> THEN Append(acc, cur)
    ELSE IF Head(items) = Hole THEN Split(Tail(items), <<>>, Append(acc, cur))
    ELSE Split(Tail(items), Append(cur, Head(items)), acc)

Strs(items) == Split(items, <<>>, <<>>)

\* the composite passed for the k-th hole when the input does not vary it
HoleArg(k) == Obj(<<"ok", "absent">>, <<"hole", k>>)

DefaultVals(items) == [k \in 1..(Len(Strs(items)) - 1) |-> HoleArg(k)]

Input(items) == [strs |-> Strs(items), vals |-> DefaultVals(items)]

\* characters of the symbols of a table
SymbolChars(table) ==
    LET all == Flat(table)
    IN  UNION {{all[p[1]][p[2]][c] : c \in 1..Len(all[p[1]][p[2]])} :
                 p \in {q \in (1..Len(all)) \X (2..3) : q[2] <= Len(all[q[1]])}}

\* the Binary symbols of a table
BinarySymbols(table) == {Flat(table)[k][2] : k \in {j \in 1..Len(Flat(table)) : Flat(table)[j][1] = "bin"}}

\* every item sequence of at most MaxItems holes, digits and symbol characters
Generated(table) ==
    UNION {[1..n -> SymbolChars(table) \cup {Hole, "2"}] : n \in 1..MaxItems}

\* `$ s1 $ s2 $ ...` with n Binary symbols of the table
RECURSIVE Chains(_, _)
Chains(table, n) ==
    IF n = 0 THEN {<<Hole>>}
    ELSE {c \o <<" ">> \o s \o <<" ", Hole>> : c \in Chains(table, n - 1), s \in BinarySymbols(table)}

\* expressions of the documentation and the test suite, and variations of them
Curated ==
    { <<"$", " ", "*", " ", "$", " ", "+", " ", "$">>,
      <<"$", " ", "+", " ", "$", " ", "*", " ", "$">>,
      <<"$", " ", "*", " ", "(", "$", " ", "+", " ", "$", ")">>,
      <<"(", "$", " ", "+", " ", "$", ")", " ", "*", " ", "$">>,
      <<"$", " ", "-", " ", " ", "-", "$">>,
      <<"$", " ", "-", " ", "-", "$">>,
      <<"-", "$", " ", "+", " ", "$">>,
      <<"(", "-", "$", ")">>,
      <<"$", "[", "$", ",", " ", "$", "]">>,
      <<"$", "(", ")">> }

\* what a hole may hold when the input varies it
HoleValues(k) ==
    {Obj(c, <<"hole", k>>) : c \in Classes} \cup {Prim("number", <<"2">>), Prim("string", <<"s">>)}

\* `$ s $`, `s$` and `$[$, $]` over every combination of hole values
Dispatch(table) ==
    {[strs |-> Strs(<<Hole, " ">> \o s \o <<" ", Hole>>), vals |-> <<l, r>>] :
        s \in BinarySymbols(table), l \in HoleValues(1), r \in HoleValues(2)}

\* `$ s1 ($ s2 $)` and `($ s1 $) s2 $` for the Binary symbols of the table
GroupRight(s1, s2) == <<Hole, " ">> \o s1 \o <<" ", "(", Hole, " ">> \o s2 \o <<" ", Hole, ")">>

GroupLeft(s1, s2) == <<"(", Hole, " ">> \o s1 \o <<" ", Hole, ")", " ">> \o s2 \o <<" ", Hole>>

Grouped(table) ==
    UNION {{GroupRight(s1, s2), GroupLeft(s1, s2)} :
              s1 \in BinarySymbols(table), s2 \in BinarySymbols(table)}

\* the Bracket specs the table declares
FnSpecs(table) == {spec \in {Flat(processOps(table))[k] : k \in 1..Len(Flat(processOps(table)))} : spec[1] = "fn"}

\* the argument list `$, $, ...` of n holes
RECURSIVE ArgItems(_)
ArgItems(n) ==
    IF n = 0 THEN <<>> ELSE IF n = 1 THEN <<Hole>> ELSE ArgItems(n - 1) \o <<",", " ", Hole>>

\* `$[$, $, ...]` with n arguments
CallItems(spec, n) == <<Hole>> \o spec[2] \o ArgItems(n) \o spec[3]

\* `$[$[$], $]`: a call whose first argument is a call
NestedCallItems(spec) == <<Hole>> \o spec[2] \o CallItems(spec, 1) \o <<",", " ", Hole>> \o spec[3]

CallForms(table) ==
    UNION {{CallItems(spec, n) : n \in 0..MaxChain} \cup {NestedCallItems(spec)} : spec \in FnSpecs(table)}

\* complete operands: a hole, a numeric literal, a string literal, a
\* parenthesised hole, and calls with no and with one argument
Operands(table) ==
    {<<Hole>>, <<"2">>, <<"'", "s", "'">>, <<"(", Hole, ")">>}
    \cup {CallItems(spec, n) : spec \in FnSpecs(table), n \in 0..1}

Literals == {<<Hole>>, <<"2">>, <<"'", "s", "'">>}

\* an operand directly followed by a literal
Juxtaposed(table) == {o \o <<" ">> \o l : o \in Operands(table), l \in Literals}

\* `$ S`, `$ S T $` and `T $` for the Binary symbols of the table
Dangling(table) ==
    UNION {{<<Hole, " ">> \o S, S \o <<" ", Hole>>}
           \cup {<<Hole, " ">> \o S \o <<" ">> \o T \o <<" ", Hole>> : T \in BinarySymbols(table)} :
              S \in BinarySymbols(table)}

\* every symbol of every spec of the table
AllSymbols(table) ==
    UNION {{Flat(table)[k][j] : j \in 2..Len(Flat(table)[k])} : k \in 1..Len(Flat(table))}

\* the open symbols of the Bracket specs
OpenSymbols(table) == {spec[2] : spec \in FnSpecs(table)}

\* symbols that end an expression without closing a group: neither `)`, nor
\* Binary, nor the open symbol of a Bracket spec
Followers(table) ==
    {s \in AllSymbols(table) : s # <<")">> /\ s \notin BinarySymbols(table) \cup OpenSymbols(table)}

\* complete expressions to enclose: `$` and `$ S 2`
Enclosed(table) == {<<Hole>>} \cup {<<Hole, " ">> \o S \o <<" ", "2">> : S \in BinarySymbols(table)}

\* `(E` and `(E f`: a group that is not closed
Unclosed(table) ==
    UNION {{<<"(">> \o e} \cup {<<"(">> \o e \o <<" ">> \o f : f \in Followers(table)} :
              e \in Enclosed(table)}

\* the Unary symbols of a table
UnarySymbols(table) == {Flat(table)[k][2] : k \in {j \in 1..Len(Flat(table)) : Flat(table)[j][1] = "un"}}

\* argument lists with a missing, trailing or doubled separator or without
\* the close symbol
ArgForms(table) ==
    UNION {{<<Hole>> \o spec[2] \o <<Hole, ",">> \o spec[3],
            <<Hole>> \o spec[2] \o <<Hole, ",", ",", Hole>> \o spec[3],
            <<Hole>> \o spec[2] \o <<Hole, " ", "(", Hole, ")">> \o spec[3],
            <<Hole>> \o spec[2] \o <<Hole>>,
            <<Hole>> \o spec[2] \o <<Hole, ",", " ", Hole>>,
            <<Hole>> \o spec[2] \o <<Hole, ",">>,
            <<Hole>> \o spec[2]}
           \cup {<<Hole>> \o spec[2] \o <<Hole, " ">> \o u \o <<Hole>> \o spec[3] : u \in UnarySymbols(table)} :
              spec \in FnSpecs(table)}

\* `$ S $ f`: a complete expression and a token that no tier takes as Binary
Leftover(table) ==
    {<<Hole, " ">> \o S \o <<" ", Hole, " ">> \o f :
        S \in BinarySymbols(table), f \in Followers(table) \cup {<<")">>}}

\* `2 S $` and `'s' S $`: a literal of the text as the left operand
LiteralLeft(table) ==
    {l \o <<" ">> \o S \o <<" ", Hole>> : l \in {<<"2">>, <<"'", "s", "'">>}, S \in BinarySymbols(table)}

\* `(X)` for X a hole, `$ S $` or a call
Parenthesised(table) ==
    {<<"(">> \o x \o <<")">> :
        x \in {<<Hole>>} \cup {<<Hole, " ">> \o S \o <<" ", Hole>> : S \in BinarySymbols(table)}
                \cup {CallItems(spec, n) : spec \in FnSpecs(table), n \in 0..MaxChain}}

\* `$[$] S $` and `$ S $[$]`: a call as the left and as the right operand
CallOperand(table) ==
    UNION {{CallItems(spec, 1) \o <<" ">> \o S \o <<" ", Hole>>,
            <<Hole, " ">> \o S \o <<" ">> \o CallItems(spec, 1)} :
              spec \in FnSpecs(table), S \in BinarySymbols(table)}

Inputs(table) ==
    {Input(items) : items \in Generated(table) \cup Curated \cup Grouped(table) \cup CallForms(table)
                              \cup Juxtaposed(table) \cup Dangling(table) \cup Unclosed(table)
                              \cup Parenthesised(table) \cup LiteralLeft(table) \cup ArgForms(table)
                              \cup Leftover(table) \cup CallOperand(table)
                              \cup UNION {Chains(table, n) : n \in 0..MaxChain}}
    \cup Dispatch(table)

(* ---------------------------- state machine ---------------------------- *)
NoResult == <<"none">>

Init ==
    /\ pc = "idle"
    /\ ops \in {processOps(raw) : raw \in {r \in RawTables : ~NoOperators(r)}}
    /\ strs = <<>>
    /\ vals = <<>>
    /\ strIdx = 0
    /\ charIdx = 0
    /\ tree = Null
    /\ result = NoResult
    /\ calls = <<>>
    /\ token = NoTok
    /\ stack = <<>>

\* op`...` is called: the closure variables of the invocation are set up
Invoke ==
    /\ pc = "idle"
    /\ \E inp \in Inputs(ops) :
         /\ strs' = inp.strs
         /\ vals' = inp.vals
    /\ strIdx' = 0
    /\ charIdx' = 0
    /\ tree' = Null
    /\ result' = NoResult
    /\ calls' = <<>>
    /\ pc' = "parse"
    /\ UNCHANGED <<ops, token, stack>>

\* `const tree = parsers.at(-1)()`
Parse ==
    /\ pc = "parse"
    /\ LET r == parsers(Len(ops), strIdx, charIdx)
       IN  /\ strIdx' = r.si
           /\ charIdx' = r.ci
           /\ IF r.ok
              THEN tree' = r.node /\ result' = result /\ pc' = "eval"
              ELSE tree' = tree /\ result' = <<"throw", r.err>> /\ pc' = "done"
    /\ UNCHANGED <<ops, strs, vals, calls, token, stack>>

\* `return evalOps(tree)`
Eval ==
    /\ pc = "eval"
    /\ LET e == evalOps(tree)
       IN  /\ result' = <<IF e.ok THEN "value" ELSE "throw", e.val>>
           /\ calls' = e.calls
    /\ pc' = "done"
    /\ UNCHANGED <<ops, strs, vals, strIdx, charIdx, tree, token, stack>>

\* the invocation is over; its closure is dropped
Return ==
    /\ pc = "done"
    /\ stack = <<>>
    /\ pc' = "idle"
    /\ strs' = <<>>
    /\ vals' = <<>>
    /\ strIdx' = 0
    /\ charIdx' = 0
    /\ tree' = Null
    /\ result' = NoResult
    /\ calls' = <<>>
    /\ token' = NoTok
    /\ UNCHANGED <<ops, stack>>

Next == Invoke \/ Parse \/ Eval \/ Return

Spec == Init /\ [][Next]_vars

(* ------------------------- the lexer driven alone ----------------------- *)
\* texts with string literals, numeric literals and characters of no operator
LexForms ==
    { <<"'", "s", "'">>, <<"\"", "s", "\"">>, <<"'", "s">>, <<"'">>,
      <<"0", "7">>, <<"2", ".", "0">>, <<".", "2">>, <<"$", " ", "+", " ", "1", "2">>,
      <<"$", " ", "?", " ", "$">>, <<" ", "$", " ", " ", "+", "$", " ">> }

LexInputs(table) == {Input(items) : items \in Generated(table) \cup Curated \cup LexForms}

\* op`...` is called and the token stream of its text is read
Scan ==
    /\ pc = "idle"
    /\ \E inp \in LexInputs(ops) :
         /\ strs' = inp.strs
         /\ vals' = inp.vals
    /\ strIdx' = 0
    /\ charIdx' = 0
    /\ pc' = "lex"
    /\ UNCHANGED <<ops, tree, result, calls, token, stack>>

\* `lex()`: peeks the token at the cursor; only the whitespace is passed
Lex ==
    /\ pc \in {"lex", "lexed"}
    /\ LET t == lex(strIdx, charIdx)
       IN  /\ token' = t
           /\ charIdx' = t.ci
           /\ IF t.type = "throw"
              THEN result' = <<"throw", t.val>> /\ pc' = "done"
              ELSE /\ result' = result
                   /\ pc' = IF t.type = "lit" /\ t.val = Undef THEN "done" ELSE "lexed"
    /\ UNCHANGED <<ops, strs, vals, strIdx, tree, calls, stack>>

\* `next()`: moves the cursor past the token at the cursor
Advance ==
    /\ pc = "lexed"
    /\ LET c == next(strIdx, charIdx)
       IN  /\ strIdx' = c.si
           /\ charIdx' = c.ci
           /\ IF c.ok
              THEN result' = result /\ pc' = "lex"
              ELSE result' = <<"throw", c.err>> /\ pc' = "done"
    /\ UNCHANGED <<ops, strs, vals, tree, calls, token, stack>>

NextLex == Scan \/ Lex \/ Advance \/ Return

SpecLex == Init /\ [][NextLex]_vars

(* ------------------------- nested invocations --------------------------- *)
\* how many invocations may be suspended at once
MaxDepth == 1

\* the expressions of an evaluator that is invoked again and again
SeqInputs(table) ==
    {Input(items) : items \in Curated \cup Chains(table, 0) \cup Chains(table, 1)
                              \cup {<<Hole, " ">>, <<"(", Hole>>}}

\* op`...` is called from outside any evaluation
Start ==
    /\ pc = "idle"
    /\ \E inp \in SeqInputs(ops) :
         /\ strs' = inp.strs
         /\ vals' = inp.vals
    /\ strIdx' = 0
    /\ charIdx' = 0
    /\ tree' = Null
    /\ result' = NoResult
    /\ calls' = <<>>
    /\ pc' = "parse"
    /\ UNCHANGED <<ops, token, stack>>

\* the locals of a running invocation of op
Frame == [strs |-> strs, vals |-> vals, strIdx |-> strIdx, charIdx |-> charIdx, tree |-> tree]

\* an operator method called by evalOps calls op`...` itself: the running
\* invocation is suspended with its locals and a new one starts
Enter ==
    /\ pc = "eval"
    /\ Len(stack) < MaxDepth
    /\ IsNode(tree)
    /\ stack' = Append(stack, Frame)
    /\ \E inp \in SeqInputs(ops) :
         /\ strs' = inp.strs
         /\ vals' = inp.vals
    /\ strIdx' = 0
    /\ charIdx' = 0
    /\ tree' = Null
    /\ result' = NoResult
    /\ calls' = <<>>
    /\ pc' = "parse"
    /\ UNCHANGED <<ops, token>>

\* an invocation that shares tree and cursor with the one it suspended
Leave_Shared ==
    /\ pc = "done"
    /\ stack # <<>>
    /\ strs' = stack[Len(stack)].strs
    /\ vals' = stack[Len(stack)].vals
    /\ stack' = SubSeq(stack, 1, Len(stack) - 1)
    /\ result' = NoResult
    /\ calls' = <<>>
    /\ pc' = "eval"
    /\ UNCHANGED <<ops, token, strIdx, charIdx, tree>>

\* the inner invocation is over and the operator method returns: the
\* suspended invocation goes on with its own locals
Leave ==
    /\ pc = "done"
    /\ stack # <<>>
    /\ strs' = stack[Len(stack)].strs
    /\ vals' = stack[Len(stack)].vals
    /\ strIdx' = stack[Len(stack)].strIdx
    /\ charIdx' = stack[Len(stack)].charIdx
    /\ tree' = stack[Len(stack)].tree
    /\ stack' = SubSeq(stack, 1, Len(stack) - 1)
    /\ result' = NoResult
    /\ calls' = <<>>
    /\ pc' = "eval"
    /\ UNCHANGED <<ops, token>>

NextSeq == Start \/ Parse \/ Eval \/ Enter \/ Leave \/ Return

SpecSeq == Init /\ [][NextSeq]_vars

(* ------------------------------ properties ----------------------------- *)
IsPrefix(p, s) == Len(p) <= Len(s) /\ \A k \in 1..Len(p) : p[k] = s[k]

\* the symbols of a spec that are a prefix of the text s
PrefixParts(o, s) == {o[j] : j \in {i \in 2..Len(o) : IsPrefix(o[i], s)}}

\* the text s is read as one operator token with exactly that text: no spec
\* declared before the first one with symbol s has a symbol that prefixes s
Lexable(s) ==
    LET all == Flat(ops)
    IN  \E k \in 1..Len(all) :
          /\ s \in PrefixParts(all[k], s)
          /\ \A j \in 1..(k - 1) : PrefixParts(all[j], s) = {}
          /\ \A q \in PrefixParts(all[k], s) : q = s \/ (all[k][1] = "fn" /\ all[k][2] = s)

\* the fragments of `$ S $`
BinaryInput(S) == Strs(<<Hole, " ">> \o S \o <<" ", Hole>>)

Outcome(c) == <<IF c.ok THEN "value" ELSE "throw", c.val>>

\* C1: for every Binary symbol S of the table and every composite left
\* operand A with an instance method operatorS, `A S B` returns what
\* A.operatorS(B) returns, and that single call, with the right operand as its
\* only argument, is the only host function invoked.
C1_LeftInstanceMethod ==
    \A S \in BinarySymbols(ops) :
        (pc = "done" /\ Lexable(S) /\ strs = BinaryInput(S) /\ HasInst(vals[1]))
        => LET c == HostCall("inst", vals[1], S, <<vals[2]>>)
           IN  calls = <<c.call>> /\ result = Outcome(c)

\* the items of `$ s1 $ s2 $ ...`
RECURSIVE ChainItems(_)
ChainItems(syms) ==
    IF syms = <<>> THEN <<Hole>>
    ELSE ChainItems(SubSeq(syms, 1, Len(syms) - 1)) \o <<" ">> \o syms[Len(syms)] \o <<" ", Hole>>

\* the tier that declares the Binary symbol s
TierOf(s) == CHOOSE t \in 1..Len(ops) : \E k \in 1..Len(ops[t]) : ops[t][k] = Bin(s)

\* the spec the lexer attaches to the operator text s: the first declared
\* spec with a symbol that prefixes s
TokenSpec(s) ==
    LET all == Flat(ops)
    IN  all[CHOOSE k \in 1..Len(all) :
                 PrefixParts(all[k], s) # {} /\ \A j \in 1..(k - 1) : PrefixParts(all[j], s) = {}]

\* the symbol of the k-th host call
CallSymbol(k) == calls[k][3]

\* C2: a Binary operator of an earlier tier binds tighter than one of a later
\* tier in either textual order; with `*` declared in an earlier tier than `+`,
\* `A * B + C` is BinaryOp(+, BinaryOp(*, A, B), C), `A + B * C` is
\* BinaryOp(+, A, BinaryOp(*, B, C)), and operator* is invoked before operator+.
C2_EarlierTierBindsTighter ==
    /\ \A s1 \in BinarySymbols(ops), s2 \in BinarySymbols(ops) :
         (pc = "done" /\ Lexable(s1) /\ Lexable(s2) /\ TierOf(s1) < TierOf(s2))
         => /\ strs = Strs(ChainItems(<<s1, s2>>))
                 => tree = Node(TokenSpec(s2), Node(TokenSpec(s1), vals[1], vals[2]), vals[3])
            /\ strs = Strs(ChainItems(<<s2, s1>>))
                 => tree = Node(TokenSpec(s2), vals[1], Node(TokenSpec(s1), vals[2], vals[3]))
    /\ (/\ pc = "done"
        /\ {<<"*">>, <<"+">>} \subseteq BinarySymbols(ops)
        /\ TierOf(<<"*">>) < TierOf(<<"+">>))
       => /\ strs = Strs(ChainItems(<<<<"*">>, <<"+">>>>))
               => /\ tree = Node(Bin(<<"+">>), Node(Bin(<<"*">>), vals[1], vals[2]), vals[3])
                  /\ Len(calls) = 2 /\ CallSymbol(1) = <<"*">> /\ CallSymbol(2) = <<"+">>
          /\ strs = Strs(ChainItems(<<<<"+">>, <<"*">>>>))
               => /\ tree = Node(Bin(<<"+">>), vals[1], Node(Bin(<<"*">>), vals[2], vals[3]))
                  /\ Len(calls) = 2 /\ CallSymbol(1) = <<"*">> /\ CallSymbol(2) = <<"+">>

\* `A + B * C` has been evaluated on a table that declares `*` above `+`
C2_Witness ==
    /\ pc = "done"
    /\ strs = Strs(ChainItems(<<<<"+">>, <<"*">>>>))
    /\ {<<"*">>, <<"+">>} \subseteq BinarySymbols(ops)
    /\ TierOf(<<"*">>) < TierOf(<<"+">>)
    /\ result[1] = "value"
    /\ Len(calls) = 2

\* the left-associative fold of `$ s1 $ s2 ... sk $` with Binary nodes
RECURSIVE LeftFold(_, _)
LeftFold(syms, k) ==
    IF k = 0 THEN vals[1] ELSE Node(Bin(syms[k]), LeftFold(syms, k - 1), vals[k + 1])

\* chains of n Binary symbols that one tier declares
SameTierChains(n) ==
    {syms \in [1..n -> BinarySymbols(ops)] :
        \A k \in 1..n : Lexable(syms[k]) /\ TierOf(syms[k]) = TierOf(syms[1])}

\* C3: a chain of Binary operators of one tier is folded left-associatively for
\* every chain length and mix of the tier's symbols: `A - B - C` is
\* BinaryOp(-, BinaryOp(-, A, B), C) and `A - B + C` is BinaryOp(+, BinaryOp(-, A, B), C).
C3_LeftAssociative ==
    \A n \in 1..MaxChain : \A syms \in SameTierChains(n) :
        (pc = "done" /\ strs = Strs(ChainItems(syms))) => tree = LeftFold(syms, n)

\* C4: a parenthesised sub-expression is one operand whatever the tiers of the
\* operators around and inside it, and the tree has no node for the
\* parentheses: `A * (B + C)` is BinaryOp(*, A, BinaryOp(+, B, C)) and
\* `(A + B) * C` is BinaryOp(*, BinaryOp(+, A, B), C).
C4_ParenthesesGroup ==
    /\ \A s1 \in BinarySymbols(ops), s2 \in BinarySymbols(ops) :
         (pc = "done" /\ Lexable(s1) /\ Lexable(s2))
         => /\ strs = Strs(GroupRight(s1, s2))
                 => tree = Node(TokenSpec(s1), vals[1], Node(TokenSpec(s2), vals[2], vals[3]))
            /\ strs = Strs(GroupLeft(s1, s2))
                 => tree = Node(TokenSpec(s2), Node(TokenSpec(s1), vals[1], vals[2]), vals[3])
    /\ (pc = "done" /\ {<<"*">>, <<"+">>} \subseteq BinarySymbols(ops))
       => /\ strs = Strs(GroupRight(<<"*">>, <<"+">>))
               => /\ tree = Node(Bin(<<"*">>), vals[1], Node(Bin(<<"+">>), vals[2], vals[3]))
                  /\ Len(calls) = 2 /\ CallSymbol(1) = <<"+">> /\ CallSymbol(2) = <<"*">>
          /\ strs = Strs(GroupLeft(<<"+">>, <<"*">>))
               => /\ tree = Node(Bin(<<"*">>), Node(Bin(<<"+">>), vals[1], vals[2]), vals[3])
                  /\ Len(calls) = 2 /\ CallSymbol(1) = <<"+">> /\ CallSymbol(2) = <<"*">>

\* `A * (B + C)` has been evaluated on a table that declares `*` above `+`
C4_Witness ==
    /\ pc = "done"
    /\ {<<"*">>, <<"+">>} \subseteq BinarySymbols(ops)
    /\ TierOf(<<"*">>) < TierOf(<<"+">>)
    /\ strs = Strs(GroupRight(<<"*">>, <<"+">>))
    /\ result[1] = "value"
    /\ Len(calls) = 2

Minus == <<"-">>

\* the table declares `-` both as a Binary and as a Unary operator
DeclaresBoth(s) ==
    \E j \in 1..Len(Flat(ops)), k \in 1..Len(Flat(ops)) : Flat(ops)[j] = Bin(s) /\ Flat(ops)[k] = Un(s)

\* C5: with `-` declared both Binary and Unary, a `-` in operand position is a
\* UnaryOp whose operand is a full expression and a `-` after a complete
\* operand is a BinaryOp: `A - -B` is BinaryOp(-, A, UnaryOp(-, B)) and
\* evaluates to A.operator-(B.operator-()), the unary method taking no argument.
C5_UnaryBinaryByPosition ==
    (pc = "done" /\ DeclaresBoth(Minus))
    => /\ strs = Strs(<<Hole, " ", "-", " ", "-", Hole>>)
            => /\ tree = Node(Bin(Minus), vals[1], Node(Un(Minus), Null, vals[2]))
               /\ LET u == HostCall("inst", vals[2], Minus, <<>>)
                      b == HostCall("inst", vals[1], Minus, <<u.val>>)
                  IN  calls = <<u.call, b.call>> /\ result = Outcome(b)
       /\ strs = Strs(<<Hole, " ", "-", " ", Hole>>)
            => tree = Node(Bin(Minus), vals[1], vals[2])
       /\ strs = Strs(<<"-", Hole>>) => tree = Node(Un(Minus), Null, vals[1])
       /\ strs = Strs(<<"(", "-", Hole, ")">>) => tree = Node(Un(Minus), Null, vals[1])
       /\ strs = Strs(<<"-", Hole, " ", "+", " ", Hole>>)
            => tree = Node(Un(Minus), Null, Node(Bin(<<"+">>), vals[1], vals[2]))

\* the holes 2..n+1 as the arguments of a call
HoleVals(n) == [k \in 1..n |-> vals[k + 1]]

\* C6: a literal directly followed by a Bracket open symbol is a Call whose
\* arguments are the comma-separated expressions in textual order; the callee's
\* instance method is invoked once with as many arguments as were written:
\* two for `M[i, j]`, none for `F()`, and two for `M[N[k], j]`.
C6_CallArguments ==
    \A spec \in {Flat(ops)[k] : k \in 1..Len(Flat(ops))} :
        (pc = "done" /\ spec[1] = "fn")
        => /\ \A n \in 0..MaxChain :
                strs = Strs(CallItems(spec, n))
                => /\ tree = Node(spec, vals[1], HoleVals(n))
                   /\ LET c == HostCall("inst", vals[1], opName(spec), HoleVals(n))
                      IN  calls = <<c.call>> /\ result = Outcome(c)
           /\ strs = Strs(NestedCallItems(spec))
                => /\ tree = Node(spec, vals[1], <<Node(spec, vals[2], <<vals[3]>>), vals[4]>>)
                   /\ Len(calls) = 2
                   /\ Len(calls[2][4]) = 2

Plus == <<"+">>

\* host calls made during the evaluation
Called == {calls[k] : k \in 1..Len(calls)}

\* C7: for `A + B` with A a composite without an instance operator+ whose type
\* has a type-level operator+, and B with an instance operator+, the type-level
\* function of A is attempted first with (A, B); when it throws, B's instance
\* method is called with A and its result is returned.
C7_FallbackToRightInstance ==
    (/\ pc = "done"
     /\ strs = BinaryInput(Plus)
     /\ TypeOf(vals[1]) = "object" /\ ~HasInst(vals[1]) /\ HasStatic(vals[1])
     /\ TypeOf(vals[2]) = "object" /\ HasInst(vals[2]))
    => LET s == HostCall("static", vals[1], Plus, <<vals[1], vals[2]>>)
           i == HostCall("inst", vals[2], Plus, <<vals[1]>>)
       IN  /\ calls # <<>> /\ calls[1] = s.call
           /\ s.ok => (calls = <<s.call>> /\ result = Outcome(s))
           /\ (~s.ok /\ i.ok) => (i.call \in Called /\ result = Outcome(i))

\* the operands of `l S r` are combined by the host language itself
BuiltinApplies(S, l, r) ==
    \/ S = Plus /\ IsStrOrNum(l) /\ IsStrOrNum(r)
    \/ S \in {<<"-">>, <<"*">>, <<"/">>} /\ TypeOf(l) = "number" /\ TypeOf(r) = "number"

\* the fallback candidates of `l S r` in order, each as <<present, outcome>>:
\* the type-level function of the left type, the one of the right type, the
\* instance method of the right operand
FallbackCandidates(S, l, r) ==
    << <<HasStatic(l), HostCall("static", l, S, <<l, r>>)>>,
       <<HasStatic(r), HostCall("static", r, S, <<l, r>>)>>,
       <<HasInst(r), HostCall("inst", r, S, <<l>>)>> >>

Succeeds(cand) == cand[1] /\ cand[2].ok

\* the calls of the candidates among the first k that are present
RECURSIVE AttemptedCalls(_, _)
AttemptedCalls(cands, k) ==
    IF k = 0 THEN <<>>
    ELSE AttemptedCalls(cands, k - 1) \o (IF cands[k][1] THEN <<cands[k][2].call>> ELSE <<>>)

\* C8: in the dispatch of `A S B` where A has no instance method for S and the
\* host language does not combine the operands, a fallback candidate that throws
\* is skipped and the next one is attempted; the first candidate that returns
\* supplies the result, and the caller sees an error only when every candidate
\* is absent or has thrown, and then an OperatorError, never the exception of a
\* candidate.
C8_FallbackExceptionsSwallowed ==
    \A S \in BinarySymbols(ops) :
        (/\ pc = "done"
         /\ Lexable(S) /\ TokenSpec(S) = Bin(S)
         /\ strs = BinaryInput(S)
         /\ ~HasInst(vals[1])
         /\ ~BuiltinApplies(S, vals[1], vals[2]))
        => LET cands == FallbackCandidates(S, vals[1], vals[2])
           IN  /\ result[1] = "throw" => result[2][1] = "OperatorError"
               /\ \A k \in 1..3 :
                    (Succeeds(cands[k]) /\ \A j \in 1..(k - 1) : ~Succeeds(cands[j]))
                    => result = <<"value", cands[k][2].val>> /\ calls = AttemptedCalls(cands, k)
               /\ (\A k \in 1..3 : ~Succeeds(cands[k]))
                    => result[1] = "throw" /\ calls = AttemptedCalls(cands, 3)

\* the text from the cursor to the end of the fragment
Rest == Slice(strIdx, charIdx, Len(strs[strIdx + 1]))

\* the indices in ops.flat() of the specs with a symbol that prefixes the text s
PrefixHits(s) == {k \in 1..Len(Flat(ops)) : PrefixParts(Flat(ops)[k], s) # {}}

\* C9: where the text at the cursor begins with the symbol of some spec, lex()
\* returns an operator token with the first such spec in declaration order
\* (tiers in order, specs of a tier in listed order), not the one with the
\* longest symbol: with tiers [['='],['==']] the text `==` is two `=` tokens
\* and never one `==` token.
C9_FirstDeclaredMatch ==
    (pc = "lexed" /\ strIdx < Len(strs))
    => /\ (PrefixHits(Rest) # {}) <=> (token.type = "op")
       /\ PrefixHits(Rest) # {}
            => \E k \in PrefixHits(Rest) :
                 /\ \A j \in PrefixHits(Rest) : k <= j
                 /\ token.spec = Flat(ops)[k]
                 /\ token.raw \in PrefixParts(Flat(ops)[k], Rest)
       /\ ops = processOps(PrefixTable)
            => /\ token.raw # <<"=", "=">>
               /\ IsPrefix(<<"=", "=">>, Rest) => (token.spec = Bin(<<"=">>) /\ token.raw = <<"=">>)

\* the lexer stands on the second `=` of `==` under [['='],['==']], having
\* read the first one as a token of its own
C9_Witness ==
    /\ pc = "lexed"
    /\ ops = processOps(PrefixTable)
    /\ strIdx < Len(strs)
    /\ charIdx >= 1
    /\ CharAt(strIdx, charIdx - 1) = "="
    /\ CharAt(strIdx, charIdx) = "="
    /\ token.type = "op"
    /\ token.raw = <<"=">>

\* the invocation threw the given syntax error and invoked no host function
ParseFails(msg) == result = <<"throw", SyntaxError(msg)>> /\ calls = <<>>

\* C10: a literal (hole value, number or string) directly after a complete
\* operand raises 'expected operator', and a token in operand position that is
\* no literal, no `(` and no Unary symbol (a Binary-only symbol, the end of the
\* input) raises 'expected value'; no host operator function is invoked before.
C10_ParseErrors ==
    pc = "done"
    => /\ \A o \in Operands(ops), l \in Literals :
            strs = Strs(o \o <<" ">> \o l) => ParseFails("expected operator")
       /\ \A S \in BinarySymbols(ops) :
            Lexable(S)
            => /\ strs = Strs(<<Hole, " ">> \o S) => ParseFails("expected value")
               /\ \A T \in BinarySymbols(ops) :
                    (Lexable(T) /\ ~SomeUnary(T))
                    => /\ strs = Strs(<<Hole, " ">> \o S \o <<" ">> \o T \o <<" ", Hole>>)
                            => ParseFails("expected value")
                       /\ strs = Strs(T \o <<" ", Hole>>) => ParseFails("expected value")

\* C11: when the token after the expression enclosed by a grouping `(` is not
\* `)`, the end of the input included, the invocation raises "Syntax error:
\* unterminated '('" and returns no value; `(A * 2` raises that error.
C11_UnterminatedGroup ==
    (pc = "done" /\ Len(strs) = 2 /\ strs[1] = <<"(">>)
    => \A e \in {<<Hole>>} \cup {<<Hole, " ">> \o S \o <<" ", "2">> :
                                    S \in {T \in BinarySymbols(ops) : Lexable(T)}} :
         /\ strs = Strs(<<"(">> \o e) => ParseFails("unterminated '('")
         /\ \A f \in Followers(ops) :
              (Lexable(f) /\ strs = Strs(<<"(">> \o e \o <<" ">> \o f))
              => ParseFails("unterminated '('")

\* `(A * 2` has been rejected on a table that declares `*`
C11_Witness ==
    /\ pc = "done"
    /\ <<"*">> \in BinarySymbols(ops)
    /\ strs = Strs(<<"(", Hole, " ", "*", " ", "2">>)
    /\ result = <<"throw", SyntaxError("unterminated '('")>>

\* the specs of the table
Specs == {Flat(ops)[k] : k \in 1..Len(Flat(ops))}

\* C12: under every accepted table, also one that declares no `(`, `)` or `,`,
\* `(X)` parses to the tree of X and `A op (B op2 C)` takes `B op2 C` as one
\* operand; under every table with a Bracket spec a comma-separated argument
\* list between its delimiters parses to a Call.
C12_GroupingAlwaysAvailable ==
    (pc \in {"eval", "done"} /\ strs # <<>>)
    => /\ strs = Strs(<<"(", Hole, ")">>) => tree = vals[1]
       /\ \A S \in {T \in BinarySymbols(ops) : Lexable(T)} :
            /\ strs = Strs(<<"(", Hole, " ">> \o S \o <<" ", Hole, ")">>)
                 => tree = Node(TokenSpec(S), vals[1], vals[2])
            /\ \A S2 \in {T \in BinarySymbols(ops) : Lexable(T)} :
                 strs = Strs(GroupRight(S, S2))
                 => tree = Node(TokenSpec(S), vals[1], Node(TokenSpec(S2), vals[2], vals[3]))
       /\ \A spec \in {sp \in Specs : sp[1] = "fn"} : \A n \in 0..MaxChain :
            /\ strs = Strs(CallItems(spec, n)) => tree = Node(spec, vals[1], HoleVals(n))
            /\ strs = Strs(<<"(">> \o CallItems(spec, n) \o <<")">>)
                 => tree = Node(spec, vals[1], HoleVals(n))

\* what the invocation on the current fragments and holes yields when it is
\* parsed from cursor (0, 0) and evaluated on its own
RunAlone ==
    LET r == parsers(Len(ops), 0, 0)
    IN  IF ~r.ok THEN <<"throw", r.err>>
        ELSE LET e == evalOps(r.node) IN <<IF e.ok THEN "value" ELSE "throw", e.val>>

\* the tables makeOp can have produced
Constructed == {processOps(raw) : raw \in RawTables}

\* C13: over any sequence of invocations of one evaluator, nested ones
\* included, the operator table stays the table produced at construction,
\* every invocation starts its cursor at (0, 0), and the outcome of an
\* invocation is determined by its fragments and holes alone.
C13_NoStateBetweenInvocations ==
    /\ [](ops \in Constructed)
    /\ [][ops' = ops]_vars
    /\ [](pc = "parse" => (strIdx = 0 /\ charIdx = 0))
    /\ [](pc = "done" => result = RunAlone)

\* an invocation started from inside an operator method of another one, on
\* other fragments, is over while the outer one is still suspended
C13_Witness ==
    /\ pc = "done"
    /\ stack # <<>>
    /\ stack[1].strs # strs
    /\ IsNode(stack[1].tree)
    /\ result[1] = "value"
    /\ calls # <<>>

Builtins == {<<"+">>, <<"-">>, <<"*">>, <<"/">>}

\* the OperatorError of a primitive left operand under a symbol that the host
\* language does not define, with no host function invoked
NotABuiltin(S, left) ==
    /\ result = <<"throw", OperatorError("not a builtin or a callable on left operand", S, left, Null)>>
    /\ calls = <<>>

\* C14: when the left operand of a BinaryOp is a primitive and the symbol is
\* not one of + - * /, the evaluation raises "operator<symbol> is not a builtin
\* or a callable on left operand <left>" and invokes no method of the right
\* operand or of its type, whatever the right operand exposes.
C14_PrimitiveLeftOtherSymbol ==
    \A S \in BinarySymbols(ops) \ Builtins :
        (pc = "done" /\ Lexable(S) /\ TokenSpec(S) = Bin(S))
        => /\ (strs = BinaryInput(S) /\ TypeOf(vals[1]) # "object") => NotABuiltin(S, vals[1])
           /\ strs = Strs(<<"2", " ">> \o S \o <<" ", Hole>>) => NotABuiltin(S, Prim("number", <<"2">>))
           /\ strs = Strs(<<"'", "s", "'", " ">> \o S \o <<" ", Hole>>)
                => NotABuiltin(S, Prim("string", <<"s">>))

\* `2 == A` has been evaluated with A exposing an instance operator==
C14_Witness ==
    /\ pc = "done"
    /\ strs = Strs(<<"2", " ", "=", "=", " ", Hole>>)
    /\ HasInst(vals[1])
    /\ NotABuiltin(<<"=", "=">>, Prim("number", <<"2">>))

\* C15: for every symbol, when the left operand is a primitive and the right
\* operand is a composite with both a type-level operator function and an
\* instance method, the type-level function is attempted first with
\* (left, right); the instance method of the right operand is invoked with
\* left only if the type-level function throws.
C15_StaticBeforeInstance ==
    \A S \in BinarySymbols(ops) :
        (/\ pc = "done"
         /\ Lexable(S) /\ TokenSpec(S) = Bin(S)
         /\ strs = BinaryInput(S)
         /\ TypeOf(vals[1]) # "object"
         /\ HasStatic(vals[2]) /\ HasInst(vals[2]))
        => LET st == HostCall("static", vals[2], S, <<vals[1], vals[2]>>)
               in == HostCall("inst", vals[2], S, <<vals[1]>>)
           IN  /\ st.ok => (calls = <<st.call>> /\ result = <<"value", st.val>>)
               /\ ~st.ok => /\ calls = <<st.call, in.call>>
                            /\ in.ok => result = <<"value", in.val>>
                            /\ ~in.ok => (result[1] = "throw" /\ result[2][1] = "OperatorError")

\* the token at the cursor is a hole value or the end of the input
AtHole == CharAt(strIdx, charIdx) = NoChar

\* the length of the text of the token at the cursor
TextLength ==
    IF token.type = "op" THEN Len(token.raw)
    ELSE IF TypeOf(token.val) = "string" THEN Len(token.val[3]) + 2
    ELSE ScanNumber(strIdx, charIdx) - charIdx

\* a step of next() that follows a lex()
Advanced == pc = "lexed" /\ pc' \in {"lex", "done"} /\ strIdx < Len(strs)

\* C16: lex() is idempotent and next() moves exactly past the peeked token: a
\* second lex() returns the same token, or raises the same error, and leaves
\* the cursor where it is; a next() after lex() puts the cursor on the first
\* character after the text of the token, or at (strIdx + 1, 0) for a hole value.
C16_PeekIdempotentAdvanceExact ==
    /\ []((pc = "lexed" \/ (pc = "done" /\ token.type = "throw"))
            => (lex(strIdx, charIdx) = token /\ lex(strIdx, charIdx).ci = charIdx))
    /\ [][Advanced => IF AtHole THEN strIdx' = strIdx + 1 /\ charIdx' = 0
                      ELSE strIdx' = strIdx /\ charIdx' = charIdx + TextLength]_vars

\* C17: next() after a numeric literal moves charIdx by the length of the
\* maximal run of digits and decimal points that lex() scanned, also for runs
\* such as `007`, `1.0` and `.5`, so that the next token is lexed from the
\* character right after the run.
C17_NumericAdvance ==
    [][(Advanced /\ ~AtHole /\ token.type = "lit" /\ TypeOf(token.val) = "number")
          => (pc' = "lex" /\ strIdx' = strIdx /\ charIdx' = ScanNumber(strIdx, charIdx))]_vars

\* the invocation threw a syntax error
SyntaxFails == pc = "done" /\ result[1] = "throw" /\ result[2][1] = "SyntaxError"

\* the invocation threw "expected '<close>'" and invoked no host function
ExpectedClose(closing) ==
    result = <<"throw", <<"SyntaxError", "expected closing", closing>>>> /\ calls = <<>>

\* C18: a Call with n arguments is produced only from n argument expressions
\* separated by n - 1 commas: after an argument a token other than `,` or the
\* close symbol, a Unary symbol and `(` included, raises a SyntaxError, a
\* trailing or doubled `,` raises a SyntaxError, and the end of the input
\* after an argument raises "expected '<close>'".
C18_ArgumentSeparators ==
    \A spec \in {sp \in Specs : sp[1] = "fn"} :
        (pc \in {"eval", "done"} /\ Len(strs) >= 2 /\ strs[2] # <<>> /\ IsPrefix(spec[2], strs[2]))
        => /\ \A n \in 0..MaxChain :
                strs = Strs(CallItems(spec, n)) => tree = Node(spec, vals[1], HoleVals(n))
           /\ strs = Strs(<<Hole>> \o spec[2] \o <<Hole, ",">> \o spec[3]) => SyntaxFails
           /\ strs = Strs(<<Hole>> \o spec[2] \o <<Hole, ",", ",", Hole>> \o spec[3]) => SyntaxFails
           /\ strs = Strs(<<Hole>> \o spec[2] \o <<Hole, " ", "(", Hole, ")">> \o spec[3]) => SyntaxFails
           /\ \A u \in UnarySymbols(ops) \ BinarySymbols(ops) :
                strs = Strs(<<Hole>> \o spec[2] \o <<Hole, " ">> \o u \o <<Hole>> \o spec[3]) => SyntaxFails
           /\ strs = Strs(<<Hole>> \o spec[2] \o <<Hole, ",">>) => SyntaxFails
           /\ strs = Strs(<<Hole>> \o spec[2]) => SyntaxFails
           /\ strs = Strs(<<Hole>> \o spec[2] \o <<Hole>>)
                => ExpectedClose(spec[3])
           /\ strs = Strs(<<Hole>> \o spec[2] \o <<Hole, ",", " ", Hole>>)
                => ExpectedClose(spec[3])

\* the specs of the nodes of a tree
RECURSIVE TreeSpecs(_)
TreeSpecs(n) ==
    IF ~IsNode(n) THEN {}
    ELSE {n[2]} \cup TreeSpecs(n[3])
         \cup (IF n[2][1] = "fn" THEN UNION {TreeSpecs(n[4][k]) : k \in 1..Len(n[4])}
               ELSE TreeSpecs(n[4]))

\* the specs of a user table after the string shorthand is expanded
Declared(raw) ==
    {IF sp[1] = "string" THEN Bin(sp[2]) ELSE sp : sp \in {Flat(raw)[k] : k \in 1..Len(Flat(raw))}}

\* the specs of the table that table construction appended
SyntheticSpecs == {sp \in Specs : \E raw \in RawTables : ops = processOps(raw) /\ sp \notin Declared(raw)}

\* C19: the specs appended for `(`, `)` and `,` are not dispatchable: no node
\* of a produced tree carries one, no operator method named after a structural
\* symbol is looked up, and a structural `,` or `)` in operand position raises
\* 'Syntax error: expected value'.
C19_SyntheticNotDispatched ==
    (pc \in {"eval", "done"} /\ strs # <<>>)
    => /\ TreeSpecs(tree) \cap SyntheticSpecs = {}
       /\ \A k \in 1..Len(calls) : \A sp \in SyntheticSpecs : calls[k][3] # sp[2]
       /\ \A sp \in SyntheticSpecs :
            (sp[2] \in {<<",">>, <<")">>} /\ strs = Strs(sp[2] \o <<Hole>>))
            => ParseFails("expected value")

\* the token at the cursor is the end of the input
AtEndOfInput == LET t == lex(strIdx, charIdx) IN t.type = "lit" /\ t.val = Undef

\* C20: an invocation returns a value only if the parser consumed the whole
\* input: when the top-level parse has returned the next token is the end of
\* the input, and a leftover token after a complete expression, such as the
\* `)` of `A + B )`, leads to a SyntaxError.
C20_WholeInputConsumed ==
    /\ (pc = "eval" \/ (pc = "done" /\ result[1] = "value")) => AtEndOfInput
    /\ (pc \in {"eval", "done"} /\ Len(strs) = 3 /\ strs[1] = <<>> /\ strs[3] # <<>>)
       => \A S \in {T \in BinarySymbols(ops) : Lexable(T)} :
            \A f \in {g \in Followers(ops) \cup {<<")">>} : Lexable(g)} :
               strs = Strs(<<Hole, " ">> \o S \o <<" ", Hole, " ">> \o f) => SyntaxFails

\* the token at the cursor is the close symbol of spec
AtCloseSymbol(spec) ==
    LET t == lex(strIdx, charIdx) IN t.type = "op" /\ t.raw = spec[3]

\* C21: when the primary parser returns a Call the cursor is past the Call's
\* close symbol, so a Call is an operand like any other primary: after `M[i]`
\* is parsed the token at the cursor is not its close symbol, `M[i] + A` parses
\* to BinaryOp(+, Call(M, [i]), A), `A + M[i]` to BinaryOp(+, A, Call(M, [i])),
\* and `(M[i])` parses to the Call without a syntax error.
C21_CallConsumesClose ==
    (pc \in {"eval", "done"} /\ Len(strs) \in 2..4 /\ strs[1] \in {<<>>, <<"(">>})
    => \A spec \in {sp \in Specs : sp[1] = "fn"} :
         /\ \A n \in 0..MaxChain :
              strs = Strs(CallItems(spec, n))
              => /\ tree = Node(spec, vals[1], HoleVals(n))
                 /\ pc = "eval" => ~AtCloseSymbol(spec)
         /\ strs = Strs(<<"(">> \o CallItems(spec, 1) \o <<")">>)
              => tree = Node(spec, vals[1], <<vals[2]>>)
         /\ \A S \in {T \in BinarySymbols(ops) : Lexable(T)} :
              /\ strs = Strs(CallItems(spec, 1) \o <<" ">> \o S \o <<" ", Hole>>)
                   => tree = Node(TokenSpec(S), Node(spec, vals[1], <<vals[2]>>), vals[3])
              /\ strs = Strs(<<Hole, " ">> \o S \o <<" ">> \o CallItems(spec, 1))
                   => tree = Node(TokenSpec(S), vals[1], Node(spec, vals[2], <<vals[3]>>))

====
